---------------------------- MODULE Spec2Model ----------------------------
(***************************************************************************)
(* Model of the subtitle generation of main.py: format_ass_time,           *)
(* _is_punct, save_ass_subs and the stage-3 caller that runs it.           *)
(*                                                                         *)
(* Times are integers in milliseconds (0.05 s = 50, 0.01 s = 10, the       *)
(* offset -0.12 s = -120) and sums and comparisons of times are exact.     *)
(* round() of a value that lies, in decimal, half way between two integers *)
(* goes either way in the code, by the error of the binary float that      *)
(* holds it: tie_up is that direction.                                     *)
(* A string is a sequence of one-glyph strings;                            *)
(* the non-ASCII glyphs of _is_punct are written by their code point       *)
(* ("U+2026").  A Python dict is a record with a field keys, the set of    *)
(* the keys it holds: reading an absent key raises KeyError.               *)
(***************************************************************************)
EXTENDS Integers, Sequences, FiniteSets, TLC

VARIABLES
    result,             \* the transcription handed to save_ass_subs
    title_duration,     \* duration of the title clip, ms
    SUB_TIMING_OFFSET,  \* the configured sync offset, ms
    pc,                 \* position of the stage-3 code
    si,                 \* index of the segment the loop of line 98 is at
    i,                  \* loop variable of line 113 (0-based word offset)
    file,               \* the track file on storage
    cues,               \* log: one entry per Dialogue line written
    visited,            \* log: the chunks line 114 took from the segment at si
    exit_code,          \* status of the process once it has exited
    tie_up,             \* whether round() takes a decimal tie upwards
    fmt_in,             \* argument of a call of format_ass_time
    fmt_out             \* its result

vars == <<result, title_duration, SUB_TIMING_OFFSET, pc, si, i, file, cues,
          visited, exit_code, tie_up, fmt_in, fmt_out>>

---------------------------------------------------------------------------
(* Configuration *)

MAX_WORDS_PER_LINE == 4

NO_SUBS_BEFORE == 50

\* the literal 0.01 of lines 106 and 128
MIN_CUE_DURATION == 10

\* the value line 30 sets
CONFIGURED_OFFSET == -120

---------------------------------------------------------------------------
(* Python builtins *)

Max(a, b) == IF a >= b THEN a ELSE b

Min(a, b) == IF a <= b THEN a ELSE b

\* int(round(n / d)): the nearest integer
Round(n, d) ==
    LET q == n \div d
        r == n % d
    IN  IF 2 * r < d THEN q
        ELSE IF 2 * r > d THEN q + 1
        ELSE IF tie_up THEN q + 1 ELSE q

Whitespace == {" ", "\t", "\n", "\r"}

RECURSIVE LStrip(_)
LStrip(s) ==
    IF s # <<>> /\ Head(s) \in Whitespace THEN LStrip(Tail(s)) ELSE s

RECURSIVE RStrip(_)
RStrip(s) ==
    IF s # <<>> /\ s[Len(s)] \in Whitespace
    THEN RStrip(SubSeq(s, 1, Len(s) - 1))
    ELSE s

\* str.strip()
Strip(s) == RStrip(LStrip(s))

\* seq[a:b] for 0 <= a, 0 <= b
Slice(seq, a, b) == SubSeq(seq, a + 1, Min(b, Len(seq)))

---------------------------------------------------------------------------
(* format_ass_time, lines 36-43: the four fields of h:mm:ss.cs *)

format_ass_time(seconds) ==
    LET sec   == Max(0, seconds)
        whole == sec \div 1000
        cs    == Round(sec % 1000, 10)
        s     == whole % 60
        m     == (whole \div 60) % 60
        h     == whole \div 3600
    IN  [h |-> h, m |-> m, s |-> s, cs |-> cs]

(* _is_punct, lines 46-47 *)

PunctGlyphs ==
    {".", ",", "!", "?", ":", ";", "U+2026", "'", "\"", ")", "]", "}",
     "U+2014", "-", "U+2013"}

_is_punct(token) == Len(token) = 1 /\ token[1] \in PunctGlyphs

---------------------------------------------------------------------------
(* save_ass_subs, lines 50-150 *)

\* key in d
Has(d, key) == key \in d.keys

\* the lines written by lines 61-96
Header ==
    << "[Script Info]",
       "ScriptType: v4.00+",
       "PlayResX: 1080",
       "PlayResY: 1920",
       "WrapStyle: 2",
       "",
       "[V4+ Styles]",
       "Format: Name, Fontname, Fontsize, PrimaryColour, SecondaryColour, OutlineColour, BackColour, Bold, Italic, Underline, StrikeOut, ScaleX, ScaleY, Spacing, Angle, BorderStyle, Outline, Shadow, Alignment, MarginL, MarginR, MarginV, Encoding",
       "Style: Default,Montserrat ExtraBold,84,&H00FFFF00,&H00FFFFFF,&H00000000,&H80000000,0,0,0,0,100,100,0,0,1,3,0,5,10,10,40,0",
       "",
       "[Events]",
       "Format: Layer, Start, End, Style, Name, MarginL, MarginR, MarginV, Effect, Text" >>

\* line 105
FallbackStart(seg, td, off) == Max(td + NO_SUBS_BEFORE, seg.start + off)

\* line 106
FallbackEnd(start, seg, off) == Max(start + MIN_CUE_DURATION, seg.end + off)

\* the slice stops one word early
Chunk_Short(words, at) == Slice(words, at, at + MAX_WORDS_PER_LINE - 1)

\* line 114: words[i:i + MAX_WORDS_PER_LINE]
Chunk(words, at) == Slice(words, at, at + MAX_WORDS_PER_LINE)

\* line 123, on the end of line 120
ChunkDiscarded(raw_end, td, off) == raw_end + off <= td

\* the clamp leaves out NO_SUBS_BEFORE
ChunkStart_NoGap(raw_start, td, off) == Max(Max(raw_start + off, td), 0)

\* lines 119 and 127
ChunkStart(raw_start, td, off) ==
    Max(Max(raw_start + off, td + NO_SUBS_BEFORE), 0)

\* the end is not raised above the clamped start
ChunkEnd_NoMinimum(raw_end, start, off) == raw_end + off

\* lines 120 and 128
ChunkEnd(raw_end, start, off) == Max(raw_end + off, start + MIN_CUE_DURATION)

\* the duration is not raised to 1
DurCs_NoMinimum(w) == Round(w.end - w.start, 10)

\* line 134
DurCs(w) == Max(1, Round(w.end - w.start, 10))

\* line 135: (w.get("word") or "").strip()
Tok(w) == Strip(IF Has(w, "word") THEN w.word ELSE <<>>)

\* line 141: the piece " "
SpacePiece == [kind |-> "space", k |-> 0, tok |-> <<" ">>]

\* line 143: the piece {\k<dur_cs>}<tok>
KaraokePiece(dur_cs, tok) == [kind |-> "karaoke", k |-> dur_cs, tok |-> tok]

\* the space is put before punctuation too
SpaceBefore_Punct(first_token, tok) == ~first_token

\* line 140
SpaceBefore(first_token, tok) == ~first_token /\ ~_is_punct(tok)

\* lines 131-144: the loop over the chunk, from word idx on
RECURSIVE BuildLine(_, _, _, _)
BuildLine(chunk, idx, line, first_token) ==
    IF idx > Len(chunk) THEN line
    ELSE LET w   == chunk[idx]
             tok == Tok(w)
         IN  IF tok = <<>>
             THEN BuildLine(chunk, idx + 1, line, first_token)
             ELSE BuildLine(chunk, idx + 1,
                            (IF SpaceBefore(first_token, tok)
                             THEN Append(line, SpacePiece) ELSE line)
                                \o <<KaraokePiece(DurCs(w), tok)>>,
                            FALSE)

\* line 146: "".join(line).strip(); a karaoke piece starts with "{" and ends
\* with its token, a space piece is all whitespace
RECURSIVE JoinStrip(_)
JoinStrip(line) ==
    IF line = <<>> THEN <<>>
    ELSE IF Head(line).kind = "space" THEN JoinStrip(Tail(line))
    ELSE LET last == line[Len(line)]
         IN  IF last.kind = "space"
             THEN JoinStrip(SubSeq(line, 1, Len(line) - 1))
             ELSE SubSeq(line, 1, Len(line) - 1)
                      \o <<[last EXCEPT !.tok = RStrip(last.tok)]>>

\* lines 131-146
KaraokeText(chunk) == JoinStrip(BuildLine(chunk, 1, <<>>, TRUE))

\* line 134 raises KeyError on a word without "end" or "start"
KaraokeRaises(chunk) ==
    \E n \in 1..Len(chunk) : ~Has(chunk[n], "end") \/ ~Has(chunk[n], "start")

\* lines 115-116 raise KeyError
RawTimesRaise(chunk) ==
    ~Has(chunk[1], "start") \/ ~Has(chunk[Len(chunk)], "end")

\* line 103
NoWords(seg) == ~Has(seg, "words") \/ seg.words = <<>>

\* line 107: the plain text of a fallback cue
PlainPiece(text) == [kind |-> "plain", k |-> 0, tok |-> Strip(text)]

\* lines 107 and 148-150: one Dialogue line
Dialogue(start, end, text) ==
    [layer |-> 0, start |-> format_ass_time(start),
     end |-> format_ass_time(end), style |-> "Default", text |-> text]

---------------------------------------------------------------------------
(* The state of stage 3, lines 200-208, while it runs save_ass_subs *)

NoFile == [exists |-> FALSE, header |-> <<>>, events |-> <<>>]

Segments == result.segments

Seg == Segments[si]

\* the log entry of a Dialogue line
Cue(fallback, at, words, raw_start, raw_end, start, end) ==
    [seg |-> si, fallback |-> fallback, at |-> at, words |-> words,
     raw_start |-> raw_start, raw_end |-> raw_end,
     start |-> start, end |-> end]

\* the line is put before the lines written so far
WriteDialogue_First(cue, text) ==
    /\ file' = [file EXCEPT !.events = <<Dialogue(cue.start, cue.end, text)>> \o @]
    /\ cues' = <<cue>> \o cues

\* f.write of a Dialogue line
WriteDialogue(cue, text) ==
    /\ file' = [file EXCEPT !.events = Append(@, Dialogue(cue.start, cue.end, text))]
    /\ cues' = Append(cues, cue)

\* line 59: open(ass_path, "w") creates or truncates the file
OpenTrack ==
    /\ pc = "stage3"
    /\ pc' = "header"
    /\ file' = [exists |-> TRUE, header |-> <<>>, events |-> <<>>]
    /\ UNCHANGED <<result, title_duration, SUB_TIMING_OFFSET, si, i, cues,
                   visited, exit_code, tie_up, fmt_in, fmt_out>>

\* lines 61-96
WriteHeader ==
    /\ pc = "header"
    /\ pc' = "segments"
    /\ file' = [file EXCEPT !.header = Header]
    /\ si' = 1
    /\ UNCHANGED <<result, title_duration, SUB_TIMING_OFFSET, i, cues,
                   visited, exit_code, tie_up, fmt_in, fmt_out>>

\* an exception leaves the with block of line 59, which closes the file with
\* what was written, and reaches the except clause of line 206
Raise ==
    /\ pc' = "raised"
    /\ UNCHANGED <<result, title_duration, SUB_TIMING_OFFSET, si, i, file,
                   cues, visited, exit_code, tie_up, fmt_in, fmt_out>>

\* line 98: result["segments"] raises KeyError
SegmentsKeyError ==
    /\ pc = "segments"
    /\ ~Has(result, "segments")
    /\ Raise

\* line 98: the loop is exhausted, the with block ends, the call returns
LoopDone ==
    /\ pc = "segments"
    /\ Has(result, "segments")
    /\ si > Len(Segments)
    /\ pc' = "returned"
    /\ UNCHANGED <<result, title_duration, SUB_TIMING_OFFSET, si, i, file,
                   cues, visited, exit_code, tie_up, fmt_in, fmt_out>>

AtSegment ==
    /\ pc = "segments"
    /\ Has(result, "segments")
    /\ si <= Len(Segments)

\* line 100: seg["end"] raises KeyError
SegmentKeyError ==
    /\ AtSegment
    /\ ~Has(Seg, "end")
    /\ Raise

\* lines 100-101
SkipSegment ==
    /\ AtSegment
    /\ Has(Seg, "end")
    /\ Seg.end <= title_duration
    /\ si' = si + 1
    /\ UNCHANGED <<result, title_duration, SUB_TIMING_OFFSET, pc, i, file,
                   cues, visited, exit_code, tie_up, fmt_in, fmt_out>>

AtFallback ==
    /\ AtSegment
    /\ Has(Seg, "end")
    /\ Seg.end > title_duration
    /\ NoWords(Seg)

\* lines 105 and 107: seg["start"] or seg["text"] raises KeyError
FallbackKeyError ==
    /\ AtFallback
    /\ ~Has(Seg, "start") \/ ~Has(Seg, "text")
    /\ Raise

\* lines 103-108
FallbackCue ==
    /\ AtFallback
    /\ Has(Seg, "start") /\ Has(Seg, "text")
    /\ LET start == FallbackStart(Seg, title_duration, SUB_TIMING_OFFSET)
           end   == FallbackEnd(start, Seg, SUB_TIMING_OFFSET)
       IN  WriteDialogue(Cue(TRUE, 0, <<>>, Seg.start, Seg.end, start, end),
                         <<PlainPiece(Seg.text)>>)
    /\ si' = si + 1
    /\ UNCHANGED <<result, title_duration, SUB_TIMING_OFFSET, pc, i,
                   visited, exit_code, tie_up, fmt_in, fmt_out>>

\* lines 110-113: enter the loop over the chunks
EnterWords ==
    /\ AtSegment
    /\ Has(Seg, "end")
    /\ Seg.end > title_duration
    /\ ~NoWords(Seg)
    /\ pc' = "chunks"
    /\ i' = 0
    /\ visited' = <<>>
    /\ UNCHANGED <<result, title_duration, SUB_TIMING_OFFSET, si, file, cues,
                   exit_code, tie_up, fmt_in, fmt_out>>

\* line 113: range(0, len(words), MAX_WORDS_PER_LINE) is exhausted
ChunksDone ==
    /\ pc = "chunks"
    /\ i >= Len(Seg.words)
    /\ pc' = "segments"
    /\ si' = si + 1
    /\ UNCHANGED <<result, title_duration, SUB_TIMING_OFFSET, i, file, cues,
                   visited, exit_code, tie_up, fmt_in, fmt_out>>

AtChunk ==
    /\ pc = "chunks"
    /\ i < Len(Seg.words)

\* lines 113-114: the loop takes its next chunk
TakeChunk ==
    /\ visited' = Append(visited, Chunk(Seg.words, i))
    /\ i' = i + MAX_WORDS_PER_LINE

\* lines 115-116 or 134: a word's "start" or "end" raises KeyError
ChunkKeyError ==
    /\ AtChunk
    /\ LET chunk == Chunk(Seg.words, i)
       IN  \/ RawTimesRaise(chunk)
           \/ /\ ~ChunkDiscarded(chunk[Len(chunk)].end, title_duration,
                                 SUB_TIMING_OFFSET)
              /\ KaraokeRaises(chunk)
    /\ pc' = "raised"
    /\ visited' = Append(visited, Chunk(Seg.words, i))
    /\ UNCHANGED <<result, title_duration, SUB_TIMING_OFFSET, si, i, file,
                   cues, exit_code, tie_up, fmt_in, fmt_out>>

\* lines 113-124: the chunk ends inside the title, after the offset
SkipChunk ==
    /\ AtChunk
    /\ LET chunk == Chunk(Seg.words, i)
       IN  /\ ~RawTimesRaise(chunk)
           /\ ChunkDiscarded(chunk[Len(chunk)].end, title_duration,
                             SUB_TIMING_OFFSET)
    /\ TakeChunk
    /\ UNCHANGED <<result, title_duration, SUB_TIMING_OFFSET, pc, si, file,
                   cues, exit_code, tie_up, fmt_in, fmt_out>>

\* the chunk reaches line 147
ChunkBuilt(chunk) ==
    /\ ~RawTimesRaise(chunk)
    /\ ~ChunkDiscarded(chunk[Len(chunk)].end, title_duration, SUB_TIMING_OFFSET)
    /\ ~KaraokeRaises(chunk)

\* lines 113-147: the text is empty, nothing is written
DropEmptyChunk ==
    /\ AtChunk
    /\ LET chunk == Chunk(Seg.words, i)
       IN  /\ ChunkBuilt(chunk)
           /\ KaraokeText(chunk) = <<>>
    /\ TakeChunk
    /\ UNCHANGED <<result, title_duration, SUB_TIMING_OFFSET, pc, si, file,
                   cues, exit_code, tie_up, fmt_in, fmt_out>>

\* lines 113-150: the chunk's Dialogue line is written
EmitChunk ==
    /\ AtChunk
    /\ LET chunk     == Chunk(Seg.words, i)
           raw_start == chunk[1].start
           raw_end   == chunk[Len(chunk)].end
           start     == ChunkStart(raw_start, title_duration, SUB_TIMING_OFFSET)
           end       == ChunkEnd(raw_end, start, SUB_TIMING_OFFSET)
       IN  /\ ChunkBuilt(chunk)
           /\ KaraokeText(chunk) # <<>>
           /\ WriteDialogue(Cue(FALSE, i, chunk, raw_start, raw_end, start, end),
                            KaraokeText(chunk))
    /\ TakeChunk
    /\ UNCHANGED <<result, title_duration, SUB_TIMING_OFFSET, pc, si,
                   exit_code, tie_up, fmt_in, fmt_out>>

\* line 205: save_ass_subs returned, stage 3 is over
SubtitlesSaved ==
    /\ pc = "returned"
    /\ pc' = "saved"
    /\ UNCHANGED <<result, title_duration, SUB_TIMING_OFFSET, si, i, file,
                   cues, visited, exit_code, tie_up, fmt_in, fmt_out>>

\* lines 206-208: the except clause prints and exits with status 1
SubtitlesFailed ==
    /\ pc = "raised"
    /\ pc' = "exited"
    /\ exit_code' = 1
    /\ UNCHANGED <<result, title_duration, SUB_TIMING_OFFSET, si, i, file,
                   cues, visited, tie_up, fmt_in, fmt_out>>

Next ==
    \/ OpenTrack
    \/ WriteHeader
    \/ SegmentsKeyError
    \/ LoopDone
    \/ SegmentKeyError
    \/ SkipSegment
    \/ FallbackKeyError
    \/ FallbackCue
    \/ EnterWords
    \/ ChunksDone
    \/ ChunkKeyError
    \/ SkipChunk
    \/ DropEmptyChunk
    \/ EmitChunk
    \/ SubtitlesSaved
    \/ SubtitlesFailed

---------------------------------------------------------------------------
(* The inputs of stage 3: the result of model.transcribe (line 203), the   *)
(* title duration (line 193) and the offset (line 30).                     *)

\* most segments of a track
MaxSegs == 2

\* most words of a segment of CoverageInputs
MaxWords == 9

\* most words of a segment of TokenInputs
MaxTokWords == 3

\* width in ms of each window of FormatInputs
FormatWindow == 1010

Word(tok, s, e) ==
    [keys |-> {"word", "start", "end"}, word |-> tok, start |-> s, end |-> e]

RECURSIVE JoinWords(_)
JoinWords(words) ==
    IF words = <<>> THEN <<>> ELSE Head(words).word \o JoinWords(Tail(words))

\* a segment as Whisper builds it with word_timestamps=True
Segment(s, e, words) ==
    [keys |-> {"start", "end", "text", "words"},
     start |-> s, end |-> e, text |-> JoinWords(words), words |-> words]

\* a segment without word timings
PlainSegment(s, e, text, keys) ==
    [keys |-> keys, start |-> s, end |-> e, text |-> text, words |-> <<>>]

\* the segment that spans its words
SegmentOf(words) ==
    Segment(words[1].start, words[Len(words)].end, words)

Without(d, key) == [d EXCEPT !.keys = @ \ {key}]

Result(segs) ==
    [keys |-> {"text", "segments", "language"}, segments |-> segs]

Input(res, td, off) == [result |-> res, td |-> td, off |-> off]

Offsets == {CONFIGURED_OFFSET, -2000, 150}

TitleDurations == {1000, 2500}

Hello == <<"H", "e", "l", "l", "o">>

World == <<"w", "o", "r", "l", "d">>

Toks ==
    { Hello, <<",">>, World, <<" ", ".">>, <<" ">>, <<>>, <<".", ".", ".">> }

SeqsUpTo(S, n) == UNION { [1..m -> S] : m \in 1..n }

\* one segment of one or two words, every start and duration
WordStarts == {800, 1100, 1180, 3000}

WordDurs == {-30, 0, 5, 15, 25, 40, 300}

TimingInputs ==
    { Input(Result(<<SegmentOf(ws)>>), 1000, off) :
        ws \in SeqsUpTo({ Word(Hello, s, s + d) : s \in WordStarts,
                                                  d \in WordDurs }, 2),
        off \in Offsets }

\* one segment without word timings, every start and end
PlainStarts == {0, 900, 1100, 1300}

PlainEnds == {950, 1000, 1080, 1120, 1125, 1400, 3200}

FallbackInputs ==
    { Input(Result(<<PlainSegment(s, e, <<" ">> \o Hello, keys)>>), 1000, off) :
        s \in PlainStarts, e \in PlainEnds,
        keys \in { {"start", "end", "text"}, {"start", "end", "text", "words"} },
        off \in Offsets }

\* one segment of up to MaxTokWords words, every token
TokenWords(toks) ==
    [n \in 1..Len(toks) |-> Word(toks[n], 1200 + 300 * (n - 1), 1450 + 300 * (n - 1))]

TokenInputs ==
    { Input(Result(<<SegmentOf(TokenWords(toks))>>), 1000, CONFIGURED_OFFSET) :
        toks \in SeqsUpTo(Toks, MaxTokWords) }

\* one segment of up to MaxWords words, told apart by their times; one word
\* may lack a key
CoverageWords(n) ==
    [j \in 1..n |-> Word(IF j % 2 = 1 THEN Hello ELSE World,
                         400 + 300 * (j - 1), 650 + 300 * (j - 1))]

CoverageInputs ==
    { Input(Result(<<Segment(400, 650 + 300 * (n - 1), CoverageWords(n))>>),
            td, CONFIGURED_OFFSET) :
        n \in 1..MaxWords, td \in TitleDurations }
    \cup
    UNION { { Input(Result(<<Segment(400, 650 + 300 * (n - 1),
                                     [CoverageWords(n) EXCEPT
                                        ![p] = Without(@, key)])>>),
                    td, CONFIGURED_OFFSET) :
                p \in 1..n, key \in {"start", "end", "word"},
                td \in TitleDurations } : n \in 1..MaxWords }

\* tracks of up to MaxSegs segments
FiveWords(t) == [j \in 1..5 |-> Word(World, t + 150 * (j - 1), t + 150 * j)]

TrackPool ==
    { PlainSegment(0, 900, Hello, {"start", "end", "text"}),
      Segment(1100, 1900, <<Word(Hello, 1100, 1400), Word(<<",">>, 1400, 1404),
                            Word(World, 1500, 1900)>>),
      Segment(2000, 2750, FiveWords(2000)),
      Segment(2000, 2750, [FiveWords(2000) EXCEPT ![5] = Without(@, "start")]),
      Segment(2900, 3000, <<Word(<<" ">>, 2900, 3000)>>),
      PlainSegment(2400, 3500, Hello, {"start", "end", "text"}),
      PlainSegment(3000, 3500, Hello, {"start", "end"}),
      Without(PlainSegment(3600, 3900, Hello, {"start", "end", "text"}), "end") }

TrackInputs ==
    { Input(Result(segs), td, off) :
        segs \in {<<>>} \cup SeqsUpTo(TrackPool, MaxSegs),
        td \in TitleDurations, off \in Offsets }
    \cup
    { Input(Without(Result(<<>>), "segments"), 1000, CONFIGURED_OFFSET) }

Inputs ==
    TimingInputs \cup FallbackInputs \cup TokenInputs \cup CoverageInputs
        \cup TrackInputs

Init ==
    /\ \E in \in Inputs :
          /\ result = in.result
          /\ title_duration = in.td
          /\ SUB_TIMING_OFFSET = in.off
    /\ pc = "stage3"
    /\ si = 1
    /\ i = 0
    /\ file = NoFile
    /\ cues = <<>>
    /\ visited = <<>>
    /\ exit_code = 0
    /\ tie_up \in BOOLEAN
    /\ fmt_in = 0
    /\ fmt_out = format_ass_time(0)

Spec == Init /\ [][Next]_vars

---------------------------------------------------------------------------
(* Calls of format_ass_time on their own *)

FormatInputs ==
    { base + x : base \in {0, 59000, 3599000}, x \in (-30)..FormatWindow }

InitFormat ==
    /\ fmt_in \in FormatInputs
    /\ fmt_out = format_ass_time(0)
    /\ pc = "format"
    /\ result = Result(<<>>)
    /\ title_duration = 0
    /\ SUB_TIMING_OFFSET = CONFIGURED_OFFSET
    /\ si = 1
    /\ i = 0
    /\ file = NoFile
    /\ cues = <<>>
    /\ visited = <<>>
    /\ exit_code = 0
    /\ tie_up \in BOOLEAN

\* lines 36-43
FormatTime ==
    /\ pc = "format"
    /\ pc' = "formatted"
    /\ fmt_out' = format_ass_time(fmt_in)
    /\ UNCHANGED <<result, title_duration, SUB_TIMING_OFFSET, si, i, file,
                   cues, visited, exit_code, tie_up, fmt_in>>

NextFormat == FormatTime

SpecFormat == InitFormat /\ [][NextFormat]_vars

---------------------------------------------------------------------------
(* Properties *)

CueIndex == 1..Len(cues)

\* C1: every Dialogue line written, from a word chunk or from the fallback,
\* starts (before formatting) at or after title_duration + NO_SUBS_BEFORE.
TitleExclusion ==
    \A n \in CueIndex : cues[n].start >= title_duration + NO_SUBS_BEFORE

\* a track with a chunk cue and a fallback cue, both moved to the clamp
TitleExclusionWitness ==
    /\ \E n \in CueIndex :
          /\ ~cues[n].fallback
          /\ cues[n].raw_start + SUB_TIMING_OFFSET < title_duration + NO_SUBS_BEFORE
          /\ cues[n].start = title_duration + NO_SUBS_BEFORE
    /\ \E n \in CueIndex :
          /\ cues[n].fallback
          /\ cues[n].raw_start + SUB_TIMING_OFFSET < title_duration + NO_SUBS_BEFORE
          /\ cues[n].start = title_duration + NO_SUBS_BEFORE

\* C2: every Dialogue line written has end > start, whatever the offset.
MonotonicDuration ==
    \A n \in CueIndex : cues[n].end > cues[n].start

\* a chunk cue whose end, after a large negative offset, lay below its
\* clamped start
MonotonicDurationWitness ==
    \E n \in CueIndex :
        /\ ~cues[n].fallback
        /\ SUB_TIMING_OFFSET < CONFIGURED_OFFSET
        /\ cues[n].raw_end + SUB_TIMING_OFFSET < cues[n].start
        /\ cues[n].end > cues[n].start

RECURSIVE Flatten(_)
Flatten(seqs) ==
    IF seqs = <<>> THEN <<>> ELSE Head(seqs) \o Flatten(Tail(seqs))

\* C3: when the loop over the chunks of a segment of N words is exhausted it
\* has visited (N + K - 1) \div K chunks, each of 1..K words, and the chunks
\* in order make up the words of that segment.
ChunkCoverage ==
    (pc = "chunks" /\ i >= Len(Seg.words)) =>
        LET N == Len(Seg.words)
            K == MAX_WORDS_PER_LINE
        IN  /\ Len(visited) = (N + K - 1) \div K
            /\ \A c \in 1..Len(visited) : Len(visited[c]) \in 1..K
            /\ Flatten(visited) = Seg.words

\* a segment of nine words went through the loop in chunks of 4, 4 and 1
ChunkCoverageWitness ==
    /\ pc = "chunks"
    /\ i >= Len(Seg.words)
    /\ Len(Seg.words) = 9
    /\ Len(visited) = 3
    /\ Len(visited[3]) = 1

\* C4: format_ass_time gives centiseconds in 0..99, seconds and minutes in
\* 0..59 for an input >= 0, and 0:00:00.00 for an input < 0.
FormatFieldsInRange ==
    pc = "formatted" =>
        IF fmt_in < 0
        THEN fmt_out = [h |-> 0, m |-> 0, s |-> 0, cs |-> 0]
        ELSE /\ fmt_out.cs \in 0..99
             /\ fmt_out.s \in 0..59
             /\ fmt_out.m \in 0..59

\* C5: with the offset as configured, no Dialogue line is written for a
\* chunk or a fallback segment whose end plus the offset is <= title_duration.
DiscardAfterOffset ==
    SUB_TIMING_OFFSET = CONFIGURED_OFFSET =>
        \A n \in CueIndex :
            cues[n].raw_end + SUB_TIMING_OFFSET > title_duration

\* the token of a word as the line shows it
Trimmed(w) == Strip(IF "word" \in w.keys THEN w.word ELSE <<>>)

IsSpoken(w) == Trimmed(w) # <<>>

IsKaraoke(piece) == piece.kind = "karaoke"

\* the text a line shows, directives left out
RECURSIVE Visible(_)
Visible(text) ==
    IF text = <<>> THEN <<>> ELSE Head(text).tok \o Visible(Tail(text))

\* the number of space pieces right before piece p
RECURSIVE SpacesBefore(_, _)
SpacesBefore(text, p) ==
    IF p > 1 /\ text[p - 1].kind = "space"
    THEN 1 + SpacesBefore(text, p - 1)
    ELSE 0

\* C6: the line of a chunk holds the chunk's non-empty trimmed tokens in
\* order and nothing for the empty ones; a token has one space before it if
\* it is neither punctuation nor the first token of the line, and none
\* otherwise; the line does not end with a space.
SpacingRule ==
    \A n \in CueIndex :
        ~cues[n].fallback =>
            LET text   == file.events[n].text
                spoken == SelectSeq(cues[n].words, IsSpoken)
                shown  == SelectSeq(text, IsKaraoke)
                first  == CHOOSE p \in 1..Len(text) :
                              /\ IsKaraoke(text[p])
                              /\ \A q \in 1..(p - 1) : ~IsKaraoke(text[q])
            IN  /\ Len(shown) = Len(spoken)
                /\ \A j \in 1..Len(shown) : shown[j].tok = Trimmed(spoken[j])
                /\ IsKaraoke(text[Len(text)])
                /\ \A p \in 1..Len(text) :
                      IsKaraoke(text[p]) =>
                          SpacesBefore(text, p) =
                              (IF ~_is_punct(text[p].tok) /\ p # first
                               THEN 1 ELSE 0)

\* the line of the chunk "Hello" "," "world" shows "Hello, world"
SpacingRuleWitness ==
    \E n \in CueIndex :
        /\ ~cues[n].fallback
        /\ [j \in 1..Len(cues[n].words) |-> cues[n].words[j].word]
               = <<Hello, <<",">>, World>>
        /\ Visible(file.events[n].text) = Hello \o <<",", " ">> \o World

\* C7: once stage 3 has failed and the process has exited, no track file is
\* left on storage.
AllOrNothingTrack ==
    pc = "exited" => ~file.exists

\* C8: with the offset as configured, no Dialogue line is written from a
\* chunk that holds a word with end < start.
MalformedRejected ==
    SUB_TIMING_OFFSET = CONFIGURED_OFFSET =>
        \A n \in CueIndex :
            \A j \in 1..Len(cues[n].words) :
                cues[n].words[j].end >= cues[n].words[j].start

\* segments in time order, each spanning its words, the words of a segment
\* in time order and not overlapping, no key absent
WellTimed(res) ==
    /\ "segments" \in res.keys
    /\ \A a \in 1..Len(res.segments) :
          LET sg == res.segments[a]
          IN  /\ {"start", "end", "text"} \subseteq sg.keys
              /\ sg.start <= sg.end
              /\ a > 1 => res.segments[a - 1].end <= sg.start
              /\ "words" \in sg.keys =>
                    \A j \in 1..Len(sg.words) :
                        LET w == sg.words[j]
                        IN  /\ {"start", "end"} \subseteq w.keys
                            /\ sg.start <= w.start
                            /\ w.start <= w.end
                            /\ w.end <= sg.end
                            /\ j > 1 => sg.words[j - 1].end <= w.start

\* the units that outlive the discards: <<a, 0>> for a fallback segment a,
\* <<a, at>> for the words at + 1 .. at + K of segment a
Survivors ==
    LET K == MAX_WORDS_PER_LINE
        Units(a) ==
            LET sg == result.segments[a]
                N  == Len(sg.words)
            IN  IF sg.end <= title_duration THEN {}
                ELSE IF "words" \notin sg.keys \/ N = 0 THEN {0}
                ELSE { at \in 0..(N - 1) :
                         LET c == SubSeq(sg.words, at + 1, Min(at + K, N))
                         IN  /\ at % K = 0
                             /\ c[Len(c)].end + SUB_TIMING_OFFSET > title_duration
                             /\ \E j \in 1..Len(c) : IsSpoken(c[j]) }
    IN  UNION { { <<a, at>> : at \in Units(a) } : a \in 1..Len(result.segments) }

\* C9: for a well-timed track, the Dialogue lines are written in the order
\* of their segments and chunks, their starts (offset and clamp applied)
\* never decrease, and when save_ass_subs returns there is one line for each
\* unit that outlived the discards and no other.
ChronologicalOrder ==
    WellTimed(result) =>
        /\ Len(file.events) = Len(cues)
        /\ \A n, m \in CueIndex :
              n < m =>
                  /\ cues[n].start <= cues[m].start
                  /\ \/ cues[n].seg < cues[m].seg
                     \/ cues[n].seg = cues[m].seg /\ cues[n].at < cues[m].at
        /\ pc = "returned" =>
              { <<cues[n].seg, cues[n].at>> : n \in CueIndex } = Survivors

\* a well-timed track of two segments gave three lines, the first one moved
\* to the clamp
ChronologicalOrderWitness ==
    /\ pc = "returned"
    /\ WellTimed(result)
    /\ Len(result.segments) >= 2
    /\ Len(cues) >= 3
    /\ cues[1].seg # cues[3].seg
    /\ cues[1].start # cues[1].raw_start + SUB_TIMING_OFFSET
    /\ cues[1].start < cues[3].start

\* C10: in the line of a chunk, the directive of each non-empty word holds
\* that word's own end - start in centiseconds, rounded to the nearest
\* integer and raised to at least 1, whatever the cue's start and end.
KaraokeDurations ==
    \A n \in CueIndex :
        ~cues[n].fallback =>
            LET shown  == SelectSeq(file.events[n].text, IsKaraoke)
                spoken == SelectSeq(cues[n].words, IsSpoken)
            IN  /\ Len(shown) = Len(spoken)
                /\ \A j \in 1..Len(shown) :
                      LET d == spoken[j].end - spoken[j].start
                          k == shown[j].k
                      IN  /\ k >= 1
                          /\ d < 15 => k = 1
                          /\ d >= 15 => (10 * k - d) \in (-5)..5

\* a cue moved to the clamp whose words lasted 0 ms and 300 ms
KaraokeDurationsWitness ==
    \E n \in CueIndex :
        /\ ~cues[n].fallback
        /\ cues[n].start # cues[n].raw_start + SUB_TIMING_OFFSET
        /\ Len(cues[n].words) = 2
        /\ cues[n].words[1].end - cues[n].words[1].start = 300
        /\ cues[n].words[2].end - cues[n].words[2].start = 0
        /\ file.events[n].text[1].k = 30
        /\ file.events[n].text[3].k = 1

=============================================================================
